---- MODULE Spec2Model ----
(***************************************************************************)
(* Model of "Stratified Data.py": the housing-data pipeline (load, seed,   *)
(* income category, random split, stratified split, comparison, print)     *)
(* and its functions taken one by one.                                     *)
(*                                                                         *)
(* Conventions.                                                            *)
(*  - median_income is an integer number of tenths (15 is 1.5).            *)
(*  - a test ratio is an exact fraction [n |-> num, d |-> den], d > 0.     *)
(*  - income_cat 0 stands for NaN (no category); 1..5 are the labels.      *)
(*  - a row position is 1-based (Python's position p is p + 1 here).       *)
(*  - a float is [k |-> "fin", n, d] (n/d, d > 0), or k = "nan", "inf",    *)
(*    "-inf" (n = d = 0): what IEEE division yields, without rounding.     *)
(*  - a pseudo-random generator is its state, a number in 0..255; the      *)
(*    stream is a fixed function of the state (a linear congruential       *)
(*    step stands for the Mersenne Twister).                               *)
(***************************************************************************)
EXTENDS Integers, Sequences, FiniteSets, TLC

VARIABLES
    \* ---- the pipeline (module level code, lines 145-167) ----
    tarball,          \* Datasets/housing.tgz: "absent", "partial" or "ok"
    csv,              \* Datasets/housing/housing.csv exists
    csvData,          \* what the archive's housing.csv holds (the input dataset)
    pc,               \* next statement of the script
    err,              \* the exception that ended the process, or "none"
    rng,              \* numpy's global generator (np.random)
    housing_data,     \* the DataFrame
    train_set, test_set,
    stratified_train_set, stratified_test_set,
    compare_props,
    printed,          \* standard output: the reports printed
    run,              \* number of the process run (the script is run again by hand)
    prev,             \* what the previous completed run produced
    \* ---- one function applied to one input ----
    call,             \* the input: dataset, test ratio, generator state
    ret               \* the function applied and what it returned

vars == <<tarball, csv, csvData, pc, err, rng, housing_data, train_set, test_set,
          stratified_train_set, stratified_test_set, compare_props, printed,
          run, prev, call, ret>>

pipeVars == <<tarball, csv, csvData, pc, err, rng, housing_data, train_set, test_set,
              stratified_train_set, stratified_test_set, compare_props, printed,
              run, prev>>

(***************************************************************************)
(* Bounds of the model.                                                    *)
(***************************************************************************)
MaxRows == 9        \* rows of a dataset built of blocks of equal incomes
MaxSeqLen == 2      \* rows of a dataset of arbitrary incomes
MaxPipeRows == 6    \* rows of the pipeline's input dataset
MaxRngInit == 2     \* generator states 0..MaxRngInit at a call / at process start
MaxRuns == 2        \* process runs of the script

(***************************************************************************)
(* Arithmetic helpers.                                                     *)
(***************************************************************************)
Min(a, b) == IF a < b THEN a ELSE b
Max(a, b) == IF a > b THEN a ELSE b

RECURSIVE SumSeq(_)
SumSeq(s) == IF s = <<>> THEN 0 ELSE Head(s) + SumSeq(Tail(s))

\* round half up instead of truncating
TruncDivRounding(num, den) == (2 * num + den) \div (2 * den)

\* int(x): Python's truncation toward zero of num/den, den > 0
TruncDiv(num, den) == IF num >= 0 THEN num \div den ELSE -((-num) \div den)

\* math.ceil of num/den, den > 0
CeilDiv(num, den) == -((-num) \div den)

\* a[lo:hi] of Python, 0-based bounds that may be negative or past the end
PyIndex(k, n) == IF k < 0 THEN Max(n + k, 0) ELSE Min(k, n)
SliceTo(a, k) == SubSeq(a, 1, PyIndex(k, Len(a)))
SliceFrom(a, k) == SubSeq(a, PyIndex(k, Len(a)) + 1, Len(a))

Range(s) == {s[i] : i \in 1..Len(s)}
Iota(n) == [i \in 1..n |-> i]
Take(a, idx) == [i \in 1..Len(idx) |-> a[idx[i]]]

(***************************************************************************)
(* The pseudo-random generator.                                            *)
(***************************************************************************)
Seed == 42
SplitterSeed == 42

RngSeed(k) == (k * 37 + 11) % 256
RngNext(s) == (s * 141 + 3) % 256
\* the draw in 0..k-1 that the state s yields
RngDraw(s, k) == (s \div 16) % k

\* numpy shuffle: for i in reversed(range(1, n)): j = draw in 0..i; swap
RECURSIVE ShuffleFrom(_, _, _)
ShuffleFrom(arr, i, s) ==
    IF i < 2 THEN [arr |-> arr, rng |-> s]
    ELSE LET s1 == RngNext(s)
             j == 1 + RngDraw(s1, i)
             swapped == [arr EXCEPT ![i] = arr[j], ![j] = arr[i]]
         IN  ShuffleFrom(swapped, i - 1, s1)

\* np.random.permutation(x) of a sequence; permutation(n) is Permutation(Iota(n), s)
Permutation(arr, s) == ShuffleFrom(arr, Len(arr), s)

(***************************************************************************)
(* Floats as exact values, with the results IEEE division gives at zero.   *)
(***************************************************************************)
NaN == [k |-> "nan", n |-> 0, d |-> 0]
Inf == [k |-> "inf", n |-> 0, d |-> 0]
NegInf == [k |-> "-inf", n |-> 0, d |-> 0]
Fin(num, den) == [k |-> "fin", n |-> num, d |-> den]

IsZero(x) == x.k = "fin" /\ x.n = 0

\* a division by zero coerced to 0
FDivZeroIsZero(a, b) ==
    IF a.k = "nan" \/ b.k = "nan" THEN NaN
    ELSE IF b.k # "fin" \/ b.n = 0 THEN Fin(0, 1)
    ELSE IF a.k # "fin" THEN a
    ELSE Fin(a.n * b.d, a.d * b.n)

\* a / b of numpy floats (b is never negative here: a proportion)
FDiv(a, b) ==
    IF a.k = "nan" \/ b.k = "nan" THEN NaN
    ELSE IF b.k = "fin" /\ b.n = 0
         THEN IF a.k = "fin" /\ a.n = 0 THEN NaN
              ELSE IF a.k = "-inf" \/ (a.k = "fin" /\ a.n < 0) THEN NegInf
              ELSE Inf
    ELSE IF b.k # "fin" THEN (IF a.k = "fin" THEN Fin(0, 1) ELSE NaN)
    ELSE IF a.k # "fin" THEN a
    ELSE Fin(a.n * b.d, a.d * b.n)

\* (x - 1) * 100
ErrorPct(x) == IF x.k # "fin" THEN x ELSE Fin((x.n - x.d) * 100, x.d)

(***************************************************************************)
(* DataFrames: the row labels (index), and the two columns the script      *)
(* reads, each present or not.                                             *)
(***************************************************************************)
Frame(incomes, hasIncome) ==
    [index |-> Iota(Len(incomes)),
     hasIncome |-> hasIncome,
     median_income |-> incomes,
     hasCat |-> FALSE,
     income_cat |-> [i \in 1..Len(incomes) |-> 0]]

EmptyFrame == Frame(<<>>, FALSE)

NRows(df) == Len(df.index)

\* dataset.iloc[positions]
Iloc(df, positions) ==
    [df EXCEPT !.index = Take(df.index, positions),
               !.median_income = Take(df.median_income, positions),
               !.income_cat = Take(df.income_cat, positions)]

(***************************************************************************)
(* add_income_category: pd.cut(median_income, bins, labels), right-closed  *)
(* bins (0, 1.5], (1.5, 3], (3, 4.5], (4.5, 6], (6, inf]; a value in no    *)
(* bin gets NaN.                                                           *)
(***************************************************************************)
Bins == <<0, 15, 30, 45, 60>>
Labels == <<1, 2, 3, 4, 5>>

\* left-closed bins, as with right=False
InBinLeftClosed(x, i) == Bins[i] <= x /\ (i = Len(Bins) \/ x < Bins[i + 1])

InBin(x, i) == Bins[i] < x /\ (i = Len(Bins) \/ x <= Bins[i + 1])

Cut(x) ==
    IF \E i \in 1..Len(Bins) : InBin(x, i)
    THEN Labels[CHOOSE i \in 1..Len(Bins) : InBin(x, i)]
    ELSE 0

\* data["median_income"] raises KeyError when the column is missing
add_income_category(data) ==
    IF ~data.hasIncome
    THEN [ok |-> FALSE, err |-> "KeyError", data |-> data]
    ELSE [ok |-> TRUE, err |-> "none",
          data |-> [data EXCEPT !.hasCat = TRUE,
                                !.income_cat = [i \in 1..NRows(data) |->
                                                  Cut(data.median_income[i])]]]

(***************************************************************************)
(* income_cat_proportions: value_counts(normalize=True) of a categorical   *)
(* column: one entry per category (observed or not), NaN rows dropped,     *)
(* each count divided by the sum of the counts.                            *)
(***************************************************************************)
CountOf(col, l) == Cardinality({i \in 1..Len(col) : col[i] = l})

\* counts divided by the number of rows, unlabelled rows included
ProportionsOverAllRows(data) ==
    [l \in Range(Labels) |->
       IF NRows(data) = 0 THEN NaN ELSE Fin(CountOf(data.income_cat, l), NRows(data))]

income_cat_proportions(data) ==
    LET total == SumSeq([j \in 1..Len(Labels) |-> CountOf(data.income_cat, Labels[j])])
    IN  [l \in Range(Labels) |->
           IF total = 0 THEN NaN ELSE Fin(CountOf(data.income_cat, l), total)]

(***************************************************************************)
(* compare_income_category_proportions: the three proportion tables        *)
(* aligned on the category, sorted, and the two error columns.             *)
(***************************************************************************)
compare_income_category_proportions(data, strat_test, rand_test) ==
    LET overall == income_cat_proportions(data)
        strat == income_cat_proportions(strat_test)
        rand == income_cat_proportions(rand_test)
    IN  [l \in Range(Labels) |->
           [Overall |-> overall[l],
            Stratified |-> strat[l],
            Random |-> rand[l],
            StratError |-> ErrorPct(FDiv(strat[l], overall[l])),
            RandError |-> ErrorPct(FDiv(rand[l], overall[l]))]]

(***************************************************************************)
(* shuffle_and_split_data.                                                 *)
(***************************************************************************)
shuffle_and_split_data(dataset, test_ratio, s) ==
    LET p == Permutation(Iota(NRows(dataset)), s)
        shuffled_indices == p.arr
        test_set_size == TruncDiv(NRows(dataset) * test_ratio.n, test_ratio.d)
        test_indices == SliceTo(shuffled_indices, test_set_size)
        train_indices == SliceFrom(shuffled_indices, test_set_size)
    IN  [ok |-> TRUE, err |-> "none",
         train |-> Iloc(dataset, train_indices),
         test |-> Iloc(dataset, test_indices),
         rng |-> p.rng]

(***************************************************************************)
(* StratifiedShuffleSplit(n_splits=1, test_size=r, random_state=seed)      *)
(* as split(dataset, dataset["income_cat"]) runs it.                       *)
(***************************************************************************)
\* the sorted distinct labels of y (np.unique)
Classes(y) ==
    LET present == {l \in Range(Labels) : CountOf(y, l) > 0}
        RECURSIVE Sorted(_)
        Sorted(S) == IF S = {} THEN <<>>
                     ELSE LET m == CHOOSE x \in S : \A z \in S : x <= z
                          IN  <<m>> \o Sorted(S \ {m})
    IN  Sorted(present)

\* the positions of the rows of label l, in row order (stable argsort)
ClassIndices(y, l) ==
    LET RECURSIVE Collect(_)
        Collect(i) == IF i > Len(y) THEN <<>>
                      ELSE (IF y[i] = l THEN <<i>> ELSE <<>>) \o Collect(i + 1)
    IN  Collect(1)

\* rng.choice(inds, size, replace=False): inds[permutation(len(inds))[:size]]
Choice(inds, size, s) ==
    LET p == Permutation(Iota(Len(inds)), s)
    IN  [picked |-> Range(Take(inds, SubSeq(p.arr, 1, size))), rng |-> p.rng]

\* the floors alone, the largest-remainder step left out
ApproximateModeFloored(class_counts, n_draws, s) ==
    [alloc |-> [i \in 1..Len(class_counts) |->
                  IF SumSeq(class_counts) = 0 THEN 0
                  ELSE (class_counts[i] * n_draws) \div SumSeq(class_counts)],
     rng |-> s]

\* _approximate_mode(class_counts, n_draws, rng): floor of the exact share
\* of each class, then one more for the classes of largest remainder, ties
\* broken by the generator.  Remainders are compared by their numerators
\* (all over the same denominator, the sum of the counts).
ApproximateMode(class_counts, n_draws, s) ==
    LET total == SumSeq(class_counts)
        K == Len(class_counts)
        floored == [i \in 1..K |-> (class_counts[i] * n_draws) \div total]
        remainder == [i \in 1..K |-> (class_counts[i] * n_draws) % total]
        RECURSIVE AddLargest(_, _, _, _)
        AddLargest(alloc, need, values, g) ==
            IF need = 0 \/ values = {} THEN [alloc |-> alloc, rng |-> g]
            ELSE LET value == CHOOSE v \in values : \A w \in values : v >= w
                     inds == ClassIndices(remainder, value)
                     add_now == Min(Len(inds), need)
                     c == Choice(inds, add_now, g)
                 IN  AddLargest([i \in 1..K |-> IF i \in c.picked THEN alloc[i] + 1
                                                ELSE alloc[i]],
                                need - add_now, values \ {value}, c.rng)
    IN  IF total = 0 \/ n_draws - SumSeq(floored) <= 0
        THEN [alloc |-> floored, rng |-> s]
        ELSE AddLargest(floored, n_draws - SumSeq(floored), Range(remainder), s)

\* the checks of split() and _iter_indices() that raise ValueError
StratifiedSplitRejects(y, test_size) ==
    LET n == Len(y)
        n_test == CeilDiv(n * test_size.n, test_size.d)
        n_train == n - n_test
        classes == Classes(y)
    IN  \/ n = 0
        \/ \E i \in 1..n : y[i] = 0                        \* y contains NaN
        \/ test_size.n <= 0 \/ test_size.n >= test_size.d  \* test_size not in (0, 1)
        \/ n_train = 0
        \/ \E j \in 1..Len(classes) : CountOf(y, classes[j]) < 2
        \/ n_train < Len(classes)
        \/ n_test < Len(classes)

\* one train/test pair of positions, classes in order, then both shuffled
StratifiedIndices(y, test_size, g0) ==
    LET n == Len(y)
        n_test == CeilDiv(n * test_size.n, test_size.d)
        n_train == n - n_test
        classes == Classes(y)
        K == Len(classes)
        class_counts == [j \in 1..K |-> CountOf(y, classes[j])]
        ni == ApproximateMode(class_counts, n_train, g0)
        class_counts_remaining == [j \in 1..K |-> class_counts[j] - ni.alloc[j]]
        ti == ApproximateMode(class_counts_remaining, n_test, ni.rng)
        RECURSIVE PerClass(_, _, _, _)
        PerClass(j, train, test, g) ==
            IF j > K THEN [train |-> train, test |-> test, rng |-> g]
            ELSE LET p == Permutation(Iota(class_counts[j]), g)
                     perm_indices == Take(ClassIndices(y, classes[j]), p.arr)
                 IN  PerClass(j + 1,
                              train \o SubSeq(perm_indices, 1, ni.alloc[j]),
                              test \o SubSeq(perm_indices, ni.alloc[j] + 1,
                                             ni.alloc[j] + ti.alloc[j]),
                              p.rng)
        parts == PerClass(1, <<>>, <<>>, ti.rng)
        ptrain == Permutation(parts.train, parts.rng)
        ptest == Permutation(parts.test, ptrain.rng)
    IN  [train |-> ptrain.arr, test |-> ptest.arr]

\* the generator np.random itself, as random_state=None would give
GlobalRandomState(random_state, g) == g

\* check_random_state(random_state) of an integer: a new generator seeded
\* with it, whatever the state g of np.random's global generator
check_random_state(random_state, g) == RngSeed(random_state)

\* stratified_shuffle_and_split_data(dataset, splitter)[0], the splitter
\* being StratifiedShuffleSplit(n_splits=1, test_size, random_state); g is
\* the state of np.random's global generator at the call
stratified_shuffle_and_split_data(dataset, test_size, random_state, g) ==
    IF ~dataset.hasCat
    THEN [ok |-> FALSE, err |-> "KeyError", train |-> EmptyFrame, test |-> EmptyFrame]
    ELSE IF StratifiedSplitRejects(dataset.income_cat, test_size)
    THEN [ok |-> FALSE, err |-> "ValueError", train |-> EmptyFrame, test |-> EmptyFrame]
    ELSE LET ix == StratifiedIndices(dataset.income_cat, test_size,
                                         check_random_state(random_state, g))
         IN  [ok |-> TRUE, err |-> "none",
              train |-> Iloc(dataset, ix.train),
              test |-> Iloc(dataset, ix.test)]

(***************************************************************************)
(* Inputs.                                                                 *)
(***************************************************************************)
\* incomes around every bin edge, below the first bin and above the last
IncomeVals == {-5, 0, 1, 15, 16, 30, 31, 45, 46, 60, 61, 70}

\* one income per block of a block dataset: labels 2, 1, 3 and NaN
BlockIncomes == <<20, 5, 40, 0>>

\* the incomes of the spec's scenario
ScenarioIncomes == <<5, 20, 35, 50, 70>>

RECURSIVE Blocks(_, _)
Blocks(counts, j) ==
    IF j > Len(counts) THEN <<>>
    ELSE [i \in 1..counts[j] |-> BlockIncomes[j]] \o Blocks(counts, j + 1)

BlockDatasets(maxRows) ==
    {Blocks(c, 1) : c \in {c \in [1..Len(BlockIncomes) -> 0..maxRows] :
                             SumSeq(c) <= maxRows}}

SeqDatasets(maxLen) == UNION {[1..k -> IncomeVals] : k \in 0..maxLen}

\* test ratios: inside (0, 1), on its ends, and outside
Ratios == {[n |-> -1, d |-> 5], [n |-> 0, d |-> 1], [n |-> 1, d |-> 8],
           [n |-> 1, d |-> 5], [n |-> 1, d |-> 2], [n |-> 1, d |-> 1],
           [n |-> 3, d |-> 2]}

PipelineRatio == [n |-> 1, d |-> 5]     \* the 0.2 of lines 157 and 160

NoCall == [data |-> EmptyFrame, test_ratio |-> PipelineRatio, rng |-> 0]
NoRet == [op |-> "none"]

(***************************************************************************)
(* One function applied to one input: the dataset, the ratio and the       *)
(* generator state (or the splitter's random_state) are drawn at Init.     *)
(***************************************************************************)
PipeIdle ==
    /\ tarball = "absent" /\ csv = FALSE /\ csvData = EmptyFrame
    /\ pc = "idle" /\ err = "none" /\ rng = 0
    /\ housing_data = EmptyFrame
    /\ train_set = EmptyFrame /\ test_set = EmptyFrame
    /\ stratified_train_set = EmptyFrame /\ stratified_test_set = EmptyFrame
    /\ compare_props = <<>> /\ printed = <<>>
    /\ run = 0 /\ prev = <<>>

InitFn ==
    /\ PipeIdle
    /\ \E incomes \in BlockDatasets(MaxRows) \cup SeqDatasets(MaxSeqLen)
                      \cup {ScenarioIncomes},
          r \in Ratios, s \in 0..MaxRngInit :
          call = [data |-> Frame(incomes, TRUE), test_ratio |-> r, rng |-> s]
    /\ ret = NoRet

\* the dataset with its income_cat column, as the later functions get it
Labelled == add_income_category(call.data).data

CallAddIncomeCategory ==
    /\ ret.op = "none"
    /\ ret' = [op |-> "add_income_category", out |-> add_income_category(call.data)]
    /\ UNCHANGED <<call, pipeVars>>

CallProportions ==
    /\ ret.op = "none"
    /\ ret' = [op |-> "income_cat_proportions", out |-> income_cat_proportions(Labelled)]
    /\ UNCHANGED <<call, pipeVars>>

CallShuffleAndSplit ==
    /\ ret.op = "none"
    /\ ret' = [op |-> "shuffle_and_split_data",
               out |-> shuffle_and_split_data(Labelled, call.test_ratio, call.rng)]
    /\ UNCHANGED <<call, pipeVars>>

CallStratifiedSplit ==
    /\ ret.op = "none"
    /\ ret' = [op |-> "stratified_shuffle_and_split_data",
               out |-> stratified_shuffle_and_split_data(Labelled, call.test_ratio,
                                                         call.rng, call.rng)]
    /\ UNCHANGED <<call, pipeVars>>

NextFn ==
    \/ CallAddIncomeCategory
    \/ CallProportions
    \/ CallShuffleAndSplit
    \/ CallStratifiedSplit

SpecFn == InitFn /\ [][NextFn]_vars

(***************************************************************************)
(* Claims about the functions (checked under SpecFn).                      *)
(***************************************************************************)
InOpenUnit(r) == 0 < r.n /\ r.n < r.d

Returned(op) == ret.op = op

\* train and test hold no row twice, share no row, and hold every row of data
IsPartition(data, train, test) ==
    /\ NRows(train) + NRows(test) = NRows(data)
    /\ Range(train.index) \cap Range(test.index) = {}
    /\ Range(train.index) \cup Range(test.index) = Range(data.index)

\* C1: for a test ratio r in (0,1) and a dataset of n rows, shuffle_and_split_data
\* returns a test set of exactly floor(n*r) rows, and train and test are disjoint
\* and together hold every row.
C1_RandomSplitSizes ==
    (Returned("shuffle_and_split_data") /\ InOpenUnit(call.test_ratio)) =>
        /\ ret.out.ok
        /\ NRows(ret.out.test) = (NRows(call.data) * call.test_ratio.n) \div call.test_ratio.d
        /\ IsPartition(Labelled, ret.out.train, ret.out.test)

\* a split whose n*r is not whole, with rows on both sides
C1_Witness ==
    /\ Returned("shuffle_and_split_data") /\ InOpenUnit(call.test_ratio)
    /\ (NRows(call.data) * call.test_ratio.n) % call.test_ratio.d # 0
    /\ NRows(ret.out.test) >= 2 /\ NRows(ret.out.train) >= 2
    /\ ret.out.test.index # SubSeq(Iota(NRows(call.data)), 1, NRows(ret.out.test))

\* C10 (as claimed): a test ratio r <= 0 or r >= 1 makes shuffle_and_split_data
\* fail with an invalid-input error and return no pair.
C10_BadRatioRejected ==
    (Returned("shuffle_and_split_data") /\ ~InOpenUnit(call.test_ratio)) =>
        (~ret.out.ok /\ ret.out.err = "ValueError")

\* the label the claim's intervals give: (-inf,1.5] 1, (1.5,3] 2, (3,4.5] 3,
\* (4.5,6] 4, (6,inf) 5
ClaimedLabel(x) ==
    IF x <= 15 THEN 1 ELSE IF x <= 30 THEN 2 ELSE IF x <= 45 THEN 3
    ELSE IF x <= 60 THEN 4 ELSE 5

\* C2 (as claimed): after add_income_category every row with a finite
\* median_income has the label of the right-closed intervals starting at
\* (-inf, 1.5].
C2_EveryRowLabelled ==
    Returned("add_income_category") =>
        /\ ret.out.ok
        /\ \A i \in 1..NRows(call.data) :
              ret.out.data.income_cat[i] = ClaimedLabel(call.data.median_income[i])

\* C2 (amended): every row with median_income > 0 has exactly the label of the
\* right-closed intervals (0,1.5] 1, (1.5,3] 2, (3,4.5] 3, (4.5,6] 4, (6,inf) 5,
\* an edge value getting the lower label; a row with median_income <= 0 has no
\* label; incomes [0.5, 2.0, 3.5, 5.0, 7.0] get [1,2,3,4,5]; nothing else changes.
C2_PositiveRowsLabelled ==
    Returned("add_income_category") =>
        /\ ret.out.ok
        /\ ret.out.data.median_income = call.data.median_income
        /\ ret.out.data.index = call.data.index
        /\ \A i \in 1..NRows(call.data) :
              LET x == call.data.median_income[i]
                  l == ret.out.data.income_cat[i]
              IN  /\ x > 0 => l = ClaimedLabel(x)
                  /\ x <= 0 => l = 0
        /\ call.data.median_income = ScenarioIncomes =>
              ret.out.data.income_cat = <<1, 2, 3, 4, 5>>

\* a labelled dataset with a row on a bin edge and a row just above one
C2_Witness ==
    /\ Returned("add_income_category")
    /\ \E i, j \in 1..NRows(call.data) :
          /\ call.data.median_income[i] = 30 /\ ret.out.data.income_cat[i] = 2
          /\ call.data.median_income[j] = 46 /\ ret.out.data.income_cat[j] = 4

\* rows of label l in a frame
GroupSize(df, l) == CountOf(df.income_cat, l)

\* |t - r*c| < k rows, in whole numbers: |t*d - n*c| < k*d
WithinRows(t, c, r, k) ==
    /\ t * r.d - r.n * c < k * r.d
    /\ r.n * c - t * r.d < k * r.d

\* C3 (as claimed): in every pair the stratified split returns, each label
\* group's test rows differ from r*|g| by less than one row, and train and test
\* are disjoint and cover the input.
C3_GroupShareWithinOne ==
    (Returned("stratified_shuffle_and_split_data") /\ ret.out.ok) =>
        /\ IsPartition(Labelled, ret.out.train, ret.out.test)
        /\ \A l \in Range(Labels) :
              WithinRows(GroupSize(ret.out.test, l), GroupSize(Labelled, l),
                         call.test_ratio, 1)

\* C3 (amended): each label group's test rows differ from r*|g| by less than
\* two rows, and by less than one row from |g| * ceil(r*n) / n, the group's
\* share of the test set's size; train and test are disjoint and cover the
\* input, and the test set has ceil(r*n) rows.
C3_GroupShareWithinTwo ==
    (Returned("stratified_shuffle_and_split_data") /\ ret.out.ok) =>
        LET n == NRows(call.data)
            n_test == CeilDiv(n * call.test_ratio.n, call.test_ratio.d)
        IN  /\ IsPartition(Labelled, ret.out.train, ret.out.test)
            /\ NRows(ret.out.test) = n_test
            /\ \A l \in Range(Labels) :
                  /\ WithinRows(GroupSize(ret.out.test, l), GroupSize(Labelled, l),
                                call.test_ratio, 2)
                  /\ WithinRows(GroupSize(ret.out.test, l), GroupSize(Labelled, l),
                                [n |-> n_test, d |-> n], 1)

\* a stratified split of three label groups of different sizes
C3_Witness ==
    /\ Returned("stratified_shuffle_and_split_data") /\ ret.out.ok
    /\ Cardinality({l \in Range(Labels) : GroupSize(Labelled, l) > 0}) = 3
    /\ Cardinality({GroupSize(ret.out.test, l) : l \in Range(Labels)}) >= 3

\* a + b of floats
FAdd(a, b) ==
    IF a.k = "nan" \/ b.k = "nan" THEN NaN
    ELSE IF a.k # "fin" THEN a
    ELSE IF b.k # "fin" THEN b
    ELSE Fin(a.n * b.d + b.n * a.d, a.d * b.d)

RECURSIVE FSum(_, _)
FSum(props, S) ==
    IF S = {} THEN Fin(0, 1)
    ELSE LET l == CHOOSE x \in S : TRUE IN FAdd(props[l], FSum(props, S \ {l}))

IsOne(x) == x.k = "fin" /\ x.n = x.d
SameValue(x, num, den) == x.k = "fin" /\ x.n * den = num * x.d

\* C5 (as claimed): for a non-empty dataset the fractions of
\* income_cat_proportions sum to 1, each being the label's row count over the
\* dataset's row count.
C5_ProportionsSumToOne ==
    (Returned("income_cat_proportions") /\ NRows(call.data) > 0) =>
        /\ IsOne(FSum(ret.out, DOMAIN ret.out))
        /\ \A l \in DOMAIN ret.out :
              SameValue(ret.out[l], GroupSize(Labelled, l), NRows(call.data))

LabelledRows(df) == Cardinality({i \in 1..NRows(df) : df.income_cat[i] # 0})

\* C5 (amended): for a dataset with at least one labelled row the fractions
\* sum to 1, each being the label's row count over the number of labelled
\* rows (rows without a label are not counted).
C5_LabelledProportionsSumToOne ==
    (Returned("income_cat_proportions") /\ LabelledRows(Labelled) > 0) =>
        /\ IsOne(FSum(ret.out, DOMAIN ret.out))
        /\ \A l \in DOMAIN ret.out :
              SameValue(ret.out[l], GroupSize(Labelled, l), LabelledRows(Labelled))

\* proportions of a dataset with an unlabelled row and two labels
C5_Witness ==
    /\ Returned("income_cat_proportions")
    /\ LabelledRows(Labelled) > 0 /\ LabelledRows(Labelled) < NRows(Labelled)
    /\ Cardinality({l \in DOMAIN ret.out : ~IsZero(ret.out[l])}) >= 2

(***************************************************************************)
(* The pipeline: the module-level statements of the script, one action     *)
(* per statement, and the script run again by hand (Restart).              *)
(***************************************************************************)
NoPrev == [done |-> FALSE]

PipelineInputs ==
    {Frame(incomes, h) : incomes \in BlockDatasets(MaxPipeRows), h \in BOOLEAN}

Init ==
    /\ tarball = "absent" /\ csv = FALSE
    /\ csvData \in PipelineInputs
    /\ pc = "load" /\ err = "none"
    /\ rng \in 0..MaxRngInit
    /\ housing_data = EmptyFrame
    /\ train_set = EmptyFrame /\ test_set = EmptyFrame
    /\ stratified_train_set = EmptyFrame /\ stratified_test_set = EmptyFrame
    /\ compare_props = <<>> /\ printed = <<>>
    /\ run = 1 /\ prev = NoPrev
    /\ call = NoCall /\ ret = NoRet

\* an exception caught and the script going on to print
Swallowed == "print"

\* where an exception no statement catches leaves the script
Unhandled == "aborted"

Raise(e) == pc' = Unhandled /\ err' = e

memVars == <<housing_data, train_set, test_set, stratified_train_set,
             stratified_test_set, compare_props>>

\* housing_data = load_housing_data()
load_housing_data ==
    /\ pc = "load"
    /\ \/ \* no archive: the download fails, leaving nothing or a partial file
          /\ tarball = "absent"
          /\ tarball' \in {"absent", "partial"}
          /\ Raise("URLError")
          /\ UNCHANGED <<csv, housing_data>>
       \/ \* no archive: downloaded, and the extraction fails
          /\ tarball = "absent"
          /\ tarball' = "ok"
          /\ Raise("ExtractError")
          /\ UNCHANGED <<csv, housing_data>>
       \/ \* no archive: downloaded, extracted, read
          /\ tarball = "absent"
          /\ tarball' = "ok" /\ csv' = TRUE
          /\ housing_data' = csvData
          /\ pc' = "seed" /\ UNCHANGED err
       \/ \* an archive file is there: read the CSV
          /\ tarball # "absent" /\ csv
          /\ housing_data' = csvData
          /\ pc' = "seed" /\ UNCHANGED <<err, tarball, csv>>
       \/ \* an archive file is there and the CSV is not
          /\ tarball # "absent" /\ ~csv
          /\ Raise("FileNotFoundError")
          /\ UNCHANGED <<tarball, csv, housing_data>>
    /\ UNCHANGED <<csvData, rng, train_set, test_set, stratified_train_set,
                   stratified_test_set, compare_props, printed, run, prev, call, ret>>

\* the call has no effect
SeedIgnored(g, k) == g

\* np.random.seed(k) on the global generator in state g
np_random_seed(g, k) == RngSeed(k)

SeedStep ==
    /\ pc = "seed"
    /\ rng' = np_random_seed(rng, Seed)
    /\ pc' = "label"
    /\ UNCHANGED <<tarball, csv, csvData, err, memVars, printed, run, prev, call, ret>>

\* housing_data = add_income_category(housing_data)
LabelStep ==
    /\ pc = "label"
    /\ \E r \in {add_income_category(housing_data)} :
          IF r.ok
          THEN housing_data' = r.data /\ pc' = "rsplit" /\ UNCHANGED err
          ELSE Raise(r.err) /\ UNCHANGED housing_data
    /\ UNCHANGED <<tarball, csv, csvData, rng, train_set, test_set,
                   stratified_train_set, stratified_test_set, compare_props,
                   printed, run, prev, call, ret>>

\* train_set, test_set = shuffle_and_split_data(housing_data, 0.2)
RandomSplitStep ==
    /\ pc = "rsplit"
    /\ \E r \in {shuffle_and_split_data(housing_data, PipelineRatio, rng)} :
          /\ train_set' = r.train /\ test_set' = r.test
          /\ rng' = r.rng
    /\ pc' = "ssplit"
    /\ UNCHANGED <<tarball, csv, csvData, err, housing_data, stratified_train_set,
                   stratified_test_set, compare_props, printed, run, prev, call, ret>>

\* splitter = StratifiedShuffleSplit(n_splits=1, test_size=0.2, random_state=42)
\* stratified_train_set, stratified_test_set = stratified_shuffle_and_split_data(...)[0]
StratifiedSplitStep ==
    /\ pc = "ssplit"
    /\ \E r \in {stratified_shuffle_and_split_data(housing_data, PipelineRatio,
                                                     SplitterSeed, rng)} :
          IF r.ok
          THEN /\ stratified_train_set' = r.train /\ stratified_test_set' = r.test
               /\ pc' = "compare" /\ UNCHANGED err
          ELSE Raise(r.err) /\ UNCHANGED <<stratified_train_set, stratified_test_set>>
    /\ UNCHANGED <<tarball, csv, csvData, rng, housing_data, train_set, test_set,
                   compare_props, printed, run, prev, call, ret>>

\* compare_props = compare_income_category_proportions(...)
CompareStep ==
    /\ pc = "compare"
    /\ compare_props' = compare_income_category_proportions(
                            housing_data, stratified_test_set, test_set)
    /\ pc' = "print"
    /\ UNCHANGED <<tarball, csv, csvData, err, rng, housing_data, train_set, test_set,
                   stratified_train_set, stratified_test_set, printed, run, prev,
                   call, ret>>

\* print(compare_props.to_string())
PrintStep ==
    /\ pc = "print"
    /\ printed' = Append(printed, compare_props)
    /\ pc' = "done"
    /\ UNCHANGED <<tarball, csv, csvData, err, rng, memVars, run, prev, call, ret>>

\* the script is run again: a new process, the files as the last run left them
Restart ==
    /\ pc \in {"done", "aborted"}
    /\ run < MaxRuns
    /\ run' = run + 1
    /\ prev' = IF pc = "done"
               THEN [done |-> TRUE, train_set |-> train_set, test_set |-> test_set,
                     stratified_train_set |-> stratified_train_set,
                     stratified_test_set |-> stratified_test_set,
                     compare_props |-> compare_props, printed |-> printed]
               ELSE prev
    /\ pc' = "load" /\ err' = "none"
    /\ rng' \in 0..MaxRngInit
    /\ housing_data' = EmptyFrame
    /\ train_set' = EmptyFrame /\ test_set' = EmptyFrame
    /\ stratified_train_set' = EmptyFrame /\ stratified_test_set' = EmptyFrame
    /\ compare_props' = <<>> /\ printed' = <<>>
    /\ UNCHANGED <<tarball, csv, csvData, call, ret>>

Next ==
    \/ load_housing_data
    \/ SeedStep
    \/ LabelStep
    \/ RandomSplitStep
    \/ StratifiedSplitStep
    \/ CompareStep
    \/ PrintStep
    \/ Restart

Spec == Init /\ [][Next]_vars

(***************************************************************************)
(* Claims about the pipeline (checked under Spec).                         *)
(***************************************************************************)
\* C4 (as claimed): a load that starts with the CSV absent fetches and extracts
\* the archive before it reads, whatever archive file an earlier run left: it
\* ends with the CSV present and read, or with a failure of the download or of
\* the extraction, never by reading a CSV that is not there.
C4_FetchWheneverCsvAbsent ==
    [][(pc = "load" /\ ~csv /\ pc' # "load") =>
          /\ err' \in {"none", "URLError", "ExtractError"}
          /\ err' = "none" => (csv' /\ housing_data' = csvData)]_vars

ReportReturned == pc \in {"print", "done"}

\* C6 (as claimed): compare_income_category_proportions returns no report when
\* some label of the aligned table has an overall proportion of zero.
C6_ZeroOverallRaises ==
    ReportReturned => \A l \in DOMAIN compare_props : ~IsZero(compare_props[l].Overall)

\* C6 (amended): compare_income_category_proportions never fails with a
\* division-by-zero error; for a label whose overall proportion is zero it
\* returns a report row whose two error percentages are not finite numbers
\* (NaN for 0/0, infinite for x/0), and for every other label the error is
\* (subset / overall - 1) * 100.
C6_ZeroOverallGivesNaN ==
    /\ err # "ZeroDivisionError"
    /\ ReportReturned =>
          \A l \in DOMAIN compare_props :
             LET row == compare_props[l]
             IN  /\ IsZero(row.Overall) =>
                       (row.StratError.k # "fin" /\ row.RandError.k # "fin")
                 /\ (row.Overall.k = "fin" /\ row.Overall.n > 0
                       /\ row.Stratified.k = "fin") =>
                       SameValue(row.StratError,
                                 (row.Stratified.n * row.Overall.d
                                    - row.Stratified.d * row.Overall.n) * 100,
                                 row.Stratified.d * row.Overall.n)

\* a printed report with a label of overall proportion zero and one without
C6_Witness ==
    /\ pc = "done"
    /\ \E l, m \in DOMAIN compare_props :
          /\ IsZero(compare_props[l].Overall) /\ compare_props[l].StratError = NaN
          /\ ~IsZero(compare_props[m].Overall) /\ compare_props[m].StratError.k = "fin"

\* C7: a run in which loading, labelling, splitting or comparing failed prints
\* no report: after a failure the print statement is never reached, and a
\* report is on the output only when every statement before it succeeded.
C7_NoReportAfterFailure ==
    /\ err # "none" => (printed = <<>> /\ pc \notin {"print", "done"})
    /\ printed # <<>> =>
          /\ pc = "done" /\ err = "none"
          /\ printed = <<compare_props>>
          /\ csv /\ housing_data.hasCat

\* a run ended by the missing median_income column, nothing printed
C7_Witness ==
    /\ pc = "aborted" /\ err = "KeyError" /\ printed = <<>>
    /\ ~csvData.hasIncome /\ csv

\* C8: two runs on the same input (and the same seed, 42) produce the same
\* random pair, the same stratified pair and the same report.
C8_SameSeedSameResults ==
    (pc = "done" /\ prev.done) =>
        /\ train_set = prev.train_set /\ test_set = prev.test_set
        /\ stratified_train_set = prev.stratified_train_set
        /\ stratified_test_set = prev.stratified_test_set
        /\ compare_props = prev.compare_props
        /\ printed = prev.printed

\* a second completed run, both test sets with rows
C8_Witness ==
    /\ pc = "done" /\ prev.done /\ run = 2
    /\ NRows(test_set) >= 1 /\ NRows(stratified_test_set) >= 2
    /\ NRows(train_set) >= 2

AfterRandomSplit ==
    pc \in {"ssplit", "compare", "print", "done"} \/ (pc = "aborted" /\ err = "ValueError")
AfterStratifiedSplit == pc \in {"compare", "print", "done"}

\* C9 (as claimed): the stratified split draws from the one generator seeded
\* at pipeline start, after the random split has drawn from it: the
\* stratified pair is the one that generator, in the state the random split
\* left it, yields.
C9_OneGenerator ==
    AfterStratifiedSplit =>
        LET ix == StratifiedIndices(housing_data.income_cat, PipelineRatio, rng)
        IN  /\ stratified_train_set = Iloc(housing_data, ix.train)
            /\ stratified_test_set = Iloc(housing_data, ix.test)

\* C9 (amended): the random split draws its permutation from np.random's
\* global generator, seeded once (42) before it draws, and nothing else draws
\* from that generator; the stratified split draws from the splitter's own
\* generator, seeded with random_state=42 when the split runs, so the
\* stratified pair does not depend on what the random split consumed.
C9_TwoGenerators ==
    /\ AfterRandomSplit =>
          LET r == shuffle_and_split_data(housing_data, PipelineRatio, RngSeed(Seed))
          IN  train_set = r.train /\ test_set = r.test /\ rng = r.rng
    /\ AfterStratifiedSplit =>
          LET ix == StratifiedIndices(housing_data.income_cat, PipelineRatio,
                                      RngSeed(SplitterSeed))
          IN  /\ stratified_train_set = Iloc(housing_data, ix.train)
              /\ stratified_test_set = Iloc(housing_data, ix.test)

\* both splits done, the global generator moved on by the random split, and
\* the stratified pair not the one the global generator would have given
C9_Witness ==
    /\ AfterStratifiedSplit
    /\ rng # RngSeed(Seed)
    /\ stratified_test_set #
          Iloc(housing_data,
               StratifiedIndices(housing_data.income_cat, PipelineRatio, rng).test)

====
